---- MODULE Spec2Model ----
(***************************************************************************)
(* Model of src/main.py: the POST /GeoProfile handler process_linestring   *)
(* and the five query functions it calls, each of which opens a psycopg2   *)
(* connection, executes one spatial SQL statement and returns the rows.    *)
(*                                                                         *)
(* Conventions.                                                            *)
(*  - Python None / SQL NULL is the empty tuple <<>>, a present integer v  *)
(*    is <<v>> (TLC cannot compare an integer with a string marker).       *)
(*  - A Python float is an exact rational [num, den], den > 0.  The        *)
(*    lengths drawn below are multiples of 1/2, for which the binary64     *)
(*    quotient and product of int(total_length / N * index) agree with     *)
(*    the exact ones on every sample count N the model draws.              *)
(*  - The database is an external collaborator: its content is drawn in    *)
(*    Init and never changes; the SQL text of a query function is          *)
(*    modelled by an operator over that content.                           *)
(*  - psycopg2: leaving "with psycopg2.connect(...) as conn" commits or    *)
(*    rolls back the transaction and does NOT close the connection; the    *)
(*    connection is closed when the connection object is deallocated,      *)
(*    i.e. when the last reference to it (the function's frame, or a       *)
(*    traceback that holds that frame) goes away.                          *)
(***************************************************************************)
EXTENDS Integers, Sequences, FiniteSets, TLC

VARIABLES
    DB_CONFIG,          \* module-level dict, main.py:10-17
    ALLOWED_ORIGINS,    \* module-level list, main.py:22-26
    db,                 \* the database service: content and schema
    pc,                 \* per request: where the handler is
    coords,             \* per request: data['coords']
    wkt,                \* per request: local wkt
    total_length,       \* per request: local total_length
    elevation_points,   \* per request: local elevation_points
    geospatial_data,    \* per request: local geospatial_data
    hydro_info,         \* per request: value of the "hydro_info" key
    clc_info,           \* per request: value of the "clc_info" key
    response,           \* per request: <<>> or <<the returned dict>>
    error,              \* per request: <<>> or <<the exception raised>>
    conns,              \* per request: the connections it opened, in order
    issued,             \* per request: the statements it executed, in order
    raised              \* per request: the database errors its calls raised

vars == <<DB_CONFIG, ALLOWED_ORIGINS, db, pc, coords, wkt, total_length,
          elevation_points, geospatial_data, hydro_info, clc_info,
          response, error, conns, issued, raised>>

----------------------------------------------------------------------------
(* Bounds of the model.                                                    *)

NumRequests == 2        \* concurrent handler invocations
MaxPoints == 2          \* points of a drawn coords list
MaxRows == 3            \* samples inside a partial raster window
MaxLength == 7          \* drawn axis lines are 0 .. MaxLength long
LongLength == 250       \* one long line
MaxPolys == 3           \* land-cover polygons the line meets

Requests == 1..NumRequests

(* Program constants.                                                      *)

NumSamples == 100       \* ST_LINEINTERPOLATEPOINTS(..., 0.01): 1/0.01 points
DefaultPort == 5432

----------------------------------------------------------------------------
(* Values.                                                                 *)

None == <<>>
Some(v) == <<v>>

Rat(n, d) == [num |-> n, den |-> d]

\* Python float / int for a non-zero divisor.
Div(a, n) == Rat(a.num, a.den * n)

\* Python float * int.
Mul(a, n) == Rat(a.num * n, a.den)

\* Python int(float): truncation toward zero.
IntTrunc(a) ==
    IF a.num >= 0 THEN a.num \div a.den ELSE -((-a.num) \div a.den)

\* PostgreSQL float8::INT: round to nearest, ties to even (rint).
RoundHalfEven(a) ==
    LET q == a.num \div a.den
        r == a.num % a.den
    IN  IF 2 * r < a.den THEN q
        ELSE IF 2 * r > a.den THEN q + 1
        ELSE IF q % 2 = 0 THEN q ELSE q + 1

Digit(d) ==
    CASE d = 0 -> "0" [] d = 1 -> "1" [] d = 2 -> "2" [] d = 3 -> "3"
      [] d = 4 -> "4" [] d = 5 -> "5" [] d = 6 -> "6" [] d = 7 -> "7"
      [] d = 8 -> "8" [] d = 9 -> "9"

RECURSIVE Digits(_)
Digits(n) == IF n < 10 THEN Digit(n) ELSE Digits(n \div 10) \o Digit(n % 10)

\* Python str(int), as an f-string field renders it.
Str(n) == IF n < 0 THEN "-" \o Digits(-n) ELSE Digits(n)

\* Python sep.join(parts).
RECURSIVE Join(_, _)
Join(sep, parts) ==
    IF Len(parts) = 0 THEN ""
    ELSE IF Len(parts) = 1 THEN parts[1]
    ELSE parts[1] \o sep \o Join(sep, Tail(parts))

BuildWktNoSpace(cs) ==
    "LINESTRING("
      \o Join(",", [i \in 1..Len(cs) |-> Str(cs[i][1]) \o " " \o Str(cs[i][2])])
      \o ")"

\* main.py:186, the f-string that builds the WKT text.
BuildWkt(cs) ==
    "LINESTRING("
      \o Join(", ", [i \in 1..Len(cs) |-> Str(cs[i][1]) \o " " \o Str(cs[i][2])])
      \o ")"

----------------------------------------------------------------------------
(* The database service.  An answer holds what the tables hold for one     *)
(* line geometry:                                                          *)
(*   length   ST_LENGTH of the line                                        *)
(*   covered  the interpolated points k (the point at fraction k/100 of    *)
(*            the line) that intersect a tile of GEO_BDR_MNT               *)
(*   cell     ST_VALUE at each covered point: None where the tile has no   *)
(*            data, Some(v) otherwise                                      *)
(*   rivers   one entry per crossing of a GEO_COURS_EAU feature: its       *)
(*            NOMENTITEH, its CLASSE and the crossing's position along     *)
(*            the line, in hundredths of the line                          *)
(*   parts    one entry per GEO_CLC_2018 polygon that ST_INTERSECTS the    *)
(*            line, in order of position along the line: its CODE_CLC and  *)
(*            the length of the intersection, in halves                    *)
(* db.lines maps each WKT text that parses as a line to its answer, and    *)
(* db.missing names the query function whose table does not exist.         *)

QueryFns ==
    <<"calculate_linestring_length", "fetch_elevation_data",
      "fetch_hydrographic_info", "fetch_clc_data", "calculate_clc_percentage">>

FnSet == {QueryFns[i] : i \in 1..Len(QueryFns)}

FnIndex(fn) == CHOOSE i \in 1..Len(QueryFns) : QueryFns[i] = fn

Half(n) == Rat(n, 2)

\* ST_GEOMFROMTEXT fails on a text that is no line of two or more points.
Malformed(w) == w \notin DOMAIN db.lines

Description(code) == "clc_" \o Str(code)

RECURSIVE SumLen(_)
SumLen(ps) == IF ps = <<>> THEN 0 ELSE ps[1].len + SumLen(Tail(ps))

\* main.py:66-69, SELECT ST_LENGTH(ST_GEOMFROMTEXT(%s, 3857)): one row.
LengthStatement(a) == << <<a.length>> >>

\* ST_ASGEOJSON of the point at fraction k/NumSamples, as JSON text.
AsGeoJson(k) == <<"Point", k>>

\* Python json.loads of that text.
JsonLoads(text) == [type |-> text[1], coordinates |-> text[2]]

\* main.py:42-55: the points at fractions 1/100 .. 100/100, joined to the
\* raster tiles they intersect, in point order.
ElevationStatement(a) ==
    LET Hit(k) == k \in a.covered
        hits == SelectSeq([k \in 1..NumSamples |-> k], Hit)
    IN  [i \in 1..Len(hits) |-> <<a.cell[hits[i]], AsGeoJson(hits[i])>>]

\* Insert row into rows, which is sorted by ascending DIST_M.
RECURSIVE InsertByDist(_, _)
InsertByDist(row, rows) ==
    IF rows = <<>> THEN <<row>>
    ELSE IF rows[1][3] <= row[3] THEN <<rows[1]>> \o InsertByDist(row, Tail(rows))
    ELSE <<row>> \o rows

RECURSIVE OrderByDist(_)
OrderByDist(rows) ==
    IF rows = <<>> THEN <<>> ELSE InsertByDist(rows[1], OrderByDist(Tail(rows)))

\* main.py:80-103: the crossings of features of CLASSE 1, 2 or 3, each with
\* (ST_LINELOCATEPOINT * ST_LENGTH)::INT, ordered by that distance.
HydroStatement(a) ==
    LET Kept(v) == v.classe \in {1, 2, 3}
        kept == SelectSeq(a.rivers, Kept)
    IN  OrderByDist([i \in 1..Len(kept) |->
            <<kept[i].name, kept[i].classe,
              RoundHalfEven(Rat(kept[i].at * a.length.num, 100 * a.length.den))>>])

\* main.py:114-146: the intersections that are lines (a polygon the line
\* only touches gives a point, which the WHERE clause drops), in order of
\* position, each with the running sum of the lengths cast to INT.
ClcStatement(a) ==
    LET IsLine(p) == p.len > 0
        segs == SelectSeq(a.parts, IsLine)
    IN  [i \in 1..Len(segs) |->
            <<segs[i].code, Description(segs[i].code),
              RoundHalfEven(Half(SumLen(SubSeq(segs, 1, i))))>>]

\* CODE_CLC values in order of first appearance (the GROUP BY groups).
RECURSIVE GroupCodes(_, _)
GroupCodes(ps, seen) ==
    IF ps = <<>> THEN <<>>
    ELSE IF ps[1].code \in seen THEN GroupCodes(Tail(ps), seen)
    ELSE <<ps[1].code>> \o GroupCodes(Tail(ps), seen \cup {ps[1].code})

\* SUM(ST_LENGTH(intersection) / ST_LENGTH(line) * 100)::INT of one group.
GroupPct(ps, code, len) ==
    LET Mine(p) == p.code = code
    IN  RoundHalfEven(Rat(100 * SumLen(SelectSeq(ps, Mine)) * len.den,
                          2 * len.num))

\* Insert row into rows, which is sorted by descending percentage.
RECURSIVE InsertDesc(_, _)
InsertDesc(row, rows) ==
    IF rows = <<>> THEN <<row>>
    ELSE IF rows[1][3] >= row[3] THEN <<rows[1]>> \o InsertDesc(row, Tail(rows))
    ELSE <<row>> \o rows

RECURSIVE InsertAsc(_, _)
InsertAsc(row, rows) ==
    IF rows = <<>> THEN <<row>>
    ELSE IF rows[1][3] <= row[3] THEN <<rows[1]>> \o InsertAsc(row, Tail(rows))
    ELSE <<row>> \o rows

RECURSIVE OrderByPctAsc(_)
OrderByPctAsc(rows) ==
    IF rows = <<>> THEN <<>> ELSE InsertAsc(rows[1], OrderByPctAsc(Tail(rows)))

\* main.py:175-176, ORDER BY LONGUEUR_PRCT DESC.
RECURSIVE OrderByPctDesc(_)
OrderByPctDesc(rows) ==
    IF rows = <<>> THEN <<>> ELSE InsertDesc(rows[1], OrderByPctDesc(Tail(rows)))

\* The division ST_LENGTH(...) / ST_LENGTH(L.GEOM) of main.py:167 is a
\* float8 division: PostgreSQL raises "division by zero" for a zero-length
\* line as soon as one polygon row is evaluated.
PctDivisionByZero(a) == a.length.num = 0 /\ a.parts # <<>>

\* main.py:157-177.
ClcPercentageStatement(a) ==
    LET codes == GroupCodes(a.parts, {})
    IN  OrderByPctDesc([i \in 1..Len(codes) |->
            <<codes[i], Description(codes[i]),
              GroupPct(a.parts, codes[i], a.length)>>])

\* The exception cursor.execute raises for statement fn on text w, "" if none.
ExecuteError(fn, w) ==
    IF db.missing = fn THEN "ProgrammingError"
    ELSE IF Malformed(w) THEN "InternalError"
    ELSE IF fn = "calculate_clc_percentage" /\ PctDivisionByZero(db.lines[w])
         THEN "DataError"
    ELSE ""

DbErrors == {"OperationalError", "ProgrammingError", "InternalError", "DataError"}

----------------------------------------------------------------------------
(* Connections.  A connection record names the query function that opened  *)
(* it, whether its socket is open, and what still references the           *)
(* connection object: the function's "frame", the "traceback" of the       *)
(* exception that left the function, or "none" (deallocated).              *)

Last(seq) == seq[Len(seq)]

\* The handler is inside a query function, between connect and return.
InCall(r) == conns[r] # <<>> /\ Last(conns[r]).heldBy = "frame"

AtCall(r) == pc[r] \in FnSet /\ ~InCall(r)

\* A pooled variant: the request keeps one connection and reopens it.
ReuseConnection(cs, fn) ==
    IF cs = <<>> THEN <<[fn |-> fn, open |-> TRUE, heldBy |-> "frame"]>>
    ELSE [cs EXCEPT ![Len(cs)] = [fn |-> fn, open |-> TRUE, heldBy |-> "frame"]]

\* psycopg2.connect(**DB_CONFIG): always a new connection.
OpenConnection(cs, fn) ==
    Append(cs, [fn |-> fn, open |-> TRUE, heldBy |-> "frame"])

\* Normal return: both with blocks exit (cursor closed, transaction
\* committed), the frame dies and with it the connection object.
ReturnFrom(cs) ==
    [cs EXCEPT ![Len(cs)] = [@ EXCEPT !.open = FALSE, !.heldBy = "none"]]

\* Exception leaving the function: the with blocks exit (cursor closed,
\* transaction rolled back); the connection stays open, its frame held by
\* the exception's traceback.
UnwindFrom(cs) ==
    [cs EXCEPT ![Len(cs)] = [@ EXCEPT !.heldBy = "traceback"]]

\* The last reference to the exception goes away.
Release(cs) ==
    [i \in 1..Len(cs) |->
        IF cs[i].heldBy = "traceback"
        THEN [cs[i] EXCEPT !.open = FALSE, !.heldBy = "none"]
        ELSE cs[i]]

OpenConns(r) == {i \in 1..Len(conns[r]) : conns[r][i].open}

----------------------------------------------------------------------------
(* The handler, main.py:183-207.                                           *)

\* A handler that reads the text from a module-level global, written by
\* whichever request parsed its body last.
SharedQueryArg(r) ==
    LET parsed == {q \in Requests : pc[q] \notin {"absent", "json"}}
    IN  wkt[CHOOSE q \in parsed : \A p \in parsed : p <= q]

\* The argument of every query function call: the local wkt.
QueryArg(r) == wkt[r]

\* An exception handler that swallows the error and goes on with the
\* statement after the call.
SwallowException(r, exc, fn) ==
    /\ pc' = [pc EXCEPT ![r] =
                 IF fn = "fetch_elevation_data" THEN "divide"
                 ELSE IF fn = "calculate_clc_percentage" THEN "done"
                 ELSE QueryFns[FnIndex(fn) + 1]]
    /\ error' = error

\* No try/except anywhere: an exception raised in fn leaves the handler.
Propagate(r, exc, fn) ==
    /\ pc' = [pc EXCEPT ![r] = "failed"]
    /\ error' = [error EXCEPT ![r] = <<[exc |-> exc, raisedIn |-> fn]>>]

\* A float division that yields an infinity instead of raising.
DivisionNeverRaises(n) == FALSE

\* Python float / int raises ZeroDivisionError for a zero divisor.
DivisionRaises(n) == n = 0

\* A substitution of a no-data sentinel for the null.
ElevationOrSentinel(point) ==
    <<IF point[1] # None THEN point[1][1] ELSE -9999, point[2]>>

\* main.py:190, [point[0] if point[0] is not None else 0, point[1]].
ElevationOrZero(point) ==
    <<IF point[1] # None THEN point[1][1] ELSE 0, point[2]>>

\* enumerate(..., 1): a distance one segment too far.
DistanceFromOne(segment_length, index) ==
    IntTrunc(Mul(segment_length, index + 1))

\* main.py:196, int(segment_length * index).
Distance(segment_length, index) == IntTrunc(Mul(segment_length, index))

\* main.py:194-201, index counted from 0 as enumerate does.
GeospatialData(points, segment_length) ==
    [i \in 1..Len(points) |->
        [distance |-> Distance(segment_length, i - 1),
         elevation |-> points[i][1],
         geometry |-> JsonLoads(points[i][2]).coordinates]]

\* main.py:185-186: the body is read and the WKT text built.
ReceiveJson(r) ==
    /\ pc[r] = "json"
    /\ wkt' = [wkt EXCEPT ![r] = BuildWkt(coords[r])]
    /\ pc' = [pc EXCEPT ![r] = QueryFns[1]]
    /\ UNCHANGED <<DB_CONFIG, ALLOWED_ORIGINS, db, coords, total_length,
                   elevation_points, geospatial_data, hydro_info, clc_info,
                   response, error, conns, issued, raised>>

\* psycopg2.connect succeeds: first line of each query function.
Connect(r) ==
    /\ AtCall(r)
    /\ conns' = [conns EXCEPT ![r] = OpenConnection(@, pc[r])]
    /\ UNCHANGED <<DB_CONFIG, ALLOWED_ORIGINS, db, pc, coords, wkt,
                   total_length, elevation_points, geospatial_data,
                   hydro_info, clc_info, response, error, issued, raised>>

\* psycopg2.connect raises OperationalError: no connection exists.
ConnectFails(r) ==
    /\ AtCall(r)
    /\ raised' = [raised EXCEPT ![r] =
                     Append(@, [exc |-> "OperationalError", raisedIn |-> pc[r]])]
    /\ Propagate(r, "OperationalError", pc[r])
    /\ UNCHANGED <<DB_CONFIG, ALLOWED_ORIGINS, db, coords, wkt, total_length,
                   elevation_points, geospatial_data, hydro_info, clc_info,
                   response, conns, issued>>

\* cursor.execute(sql, (wkt,)) of function fn, and what both exits share.
Execute(r, fn) ==
    /\ pc[r] = fn
    /\ InCall(r)
    /\ issued' = [issued EXCEPT ![r] =
                     Append(@, [fn |-> fn, wkt |-> QueryArg(r),
                                conn |-> Len(conns[r])])]
    /\ UNCHANGED <<DB_CONFIG, ALLOWED_ORIGINS, db, coords, wkt>>

\* cursor.execute raised.
ExecuteRaises(r, fn) ==
    /\ raised' = [raised EXCEPT ![r] =
                     Append(@, [exc |-> ExecuteError(fn, QueryArg(r)),
                                raisedIn |-> fn])]
    /\ conns' = [conns EXCEPT ![r] = UnwindFrom(@)]
    /\ Propagate(r, ExecuteError(fn, QueryArg(r)), fn)

\* cursor.fetchall() returned and the function returns.
ExecuteReturns(r, next) ==
    /\ raised' = raised
    /\ conns' = [conns EXCEPT ![r] = ReturnFrom(@)]
    /\ pc' = [pc EXCEPT ![r] = next]
    /\ error' = error

Answer(r) == db.lines[QueryArg(r)]

\* main.py:61-72 and the assignment of main.py:188.
CalculateLinestringLength(r) ==
    /\ Execute(r, "calculate_linestring_length")
    /\ IF ExecuteError("calculate_linestring_length", QueryArg(r)) # ""
       THEN /\ ExecuteRaises(r, "calculate_linestring_length")
            /\ UNCHANGED total_length
       ELSE /\ ExecuteReturns(r, "fetch_elevation_data")
            /\ total_length' =
                 [total_length EXCEPT ![r] = LengthStatement(Answer(r))[1][1]]
    /\ UNCHANGED <<elevation_points, geospatial_data, hydro_info, clc_info,
                   response>>

\* main.py:37-58 and the comprehension of main.py:189-192.
FetchElevationData(r) ==
    /\ Execute(r, "fetch_elevation_data")
    /\ IF ExecuteError("fetch_elevation_data", QueryArg(r)) # ""
       THEN /\ ExecuteRaises(r, "fetch_elevation_data")
            /\ UNCHANGED elevation_points
       ELSE /\ ExecuteReturns(r, "divide")
            /\ elevation_points' =
                 [elevation_points EXCEPT ![r] =
                    LET rows == ElevationStatement(Answer(r))
                    IN  [i \in 1..Len(rows) |-> ElevationOrZero(rows[i])]]
    /\ UNCHANGED <<total_length, geospatial_data, hydro_info, clc_info,
                   response>>

\* main.py:193-201: the segment length and the list of output points.
ComputeDistances(r) ==
    /\ pc[r] = "divide"
    /\ IF DivisionRaises(Len(elevation_points[r]))
       THEN /\ Propagate(r, "ZeroDivisionError", "process_linestring")
            /\ UNCHANGED geospatial_data
       ELSE /\ geospatial_data' =
                 [geospatial_data EXCEPT ![r] =
                    GeospatialData(elevation_points[r],
                      Div(total_length[r], Len(elevation_points[r])))]
            /\ pc' = [pc EXCEPT ![r] = "fetch_hydrographic_info"]
            /\ error' = error
    /\ UNCHANGED <<DB_CONFIG, ALLOWED_ORIGINS, db, coords, wkt, total_length,
                   elevation_points, hydro_info, clc_info, response, conns,
                   issued, raised>>

\* main.py:75-106 and the "hydro_info" entry of main.py:204.
FetchHydrographicInfo(r) ==
    /\ Execute(r, "fetch_hydrographic_info")
    /\ IF ExecuteError("fetch_hydrographic_info", QueryArg(r)) # ""
       THEN /\ ExecuteRaises(r, "fetch_hydrographic_info")
            /\ UNCHANGED hydro_info
       ELSE /\ ExecuteReturns(r, "fetch_clc_data")
            /\ hydro_info' = [hydro_info EXCEPT ![r] = HydroStatement(Answer(r))]
    /\ UNCHANGED <<total_length, elevation_points, geospatial_data, clc_info,
                   response>>

\* main.py:109-149 and the "clc_info" entry of main.py:205.
FetchClcData(r) ==
    /\ Execute(r, "fetch_clc_data")
    /\ IF ExecuteError("fetch_clc_data", QueryArg(r)) # ""
       THEN /\ ExecuteRaises(r, "fetch_clc_data")
            /\ UNCHANGED clc_info
       ELSE /\ ExecuteReturns(r, "calculate_clc_percentage")
            /\ clc_info' = [clc_info EXCEPT ![r] = ClcStatement(Answer(r))]
    /\ UNCHANGED <<total_length, elevation_points, geospatial_data, hydro_info,
                   response>>

\* main.py:152-180, the "clc_pct_info" entry of main.py:206 and the return
\* of the finished dict, main.py:202-207.
CalculateClcPercentage(r) ==
    /\ Execute(r, "calculate_clc_percentage")
    /\ IF ExecuteError("calculate_clc_percentage", QueryArg(r)) # ""
       THEN /\ ExecuteRaises(r, "calculate_clc_percentage")
            /\ UNCHANGED response
       ELSE /\ ExecuteReturns(r, "done")
            /\ response' =
                 [response EXCEPT ![r] =
                    <<[values |-> geospatial_data[r],
                       hydro_info |-> hydro_info[r],
                       clc_info |-> clc_info[r],
                       clc_pct_info |-> ClcPercentageStatement(Answer(r))]>>]
    /\ UNCHANGED <<total_length, elevation_points, geospatial_data, hydro_info,
                   clc_info>>

\* main.py:183: the request layer that called the handler answers the
\* failed request with a server fault and drops the exception; the frames
\* its traceback held die, and the connection they referenced is closed.
DiscardException(r) ==
    /\ pc[r] = "failed"
    /\ pc' = [pc EXCEPT ![r] = "faulted"]
    /\ conns' = [conns EXCEPT ![r] = Release(@)]
    /\ UNCHANGED <<DB_CONFIG, ALLOWED_ORIGINS, db, coords, wkt, total_length,
                   elevation_points, geospatial_data, hydro_info, clc_info,
                   response, error, issued, raised>>

----------------------------------------------------------------------------
(* Initial states: the process has started (module level executed), the    *)
(* database holds its content, and the requests that will be served have   *)
(* arrived with their bodies.  Five families of inputs are drawn.          *)

EnvConfig ==
    [host |-> "DB_HOST", port |-> DefaultPort, database |-> "DB_NAME",
     user |-> "DB_USER", password |-> "DB_PASSWORD", sslmode |-> "require"]

Origins ==
    <<"http://localhost:5173", "http://127.0.0.1:5173", "http://127.0.0.1:5500">>

CoordValues == {-1, 0, 1, 10}

CoordsSet ==
    UNION {[1..n -> CoordValues \X CoordValues] : n \in 0..MaxPoints}

SampleLine == << <<0, 0>>, <<1, 1>> >>

\* The line from the origin along the first axis, n long.
AxisLine(n) == << <<0, 0>>, <<n, 0>> >>

Dist(x, y) == IF x < y THEN y - x ELSE x - y

\* ST_LENGTH of one segment, in halves: exact when the segment follows an
\* axis, else the nearest half to sqrt(dx^2 + dy^2).
SegmentHalves(p, q) ==
    LET dx == Dist(p[1], q[1])
        dy == Dist(p[2], q[2])
    IN  IF dx = 0 THEN 2 * dy
        ELSE IF dy = 0 THEN 2 * dx
        ELSE CHOOSE h \in 0..(2 * (dx + dy)) :
                /\ (2 * h - 1) * (2 * h - 1) <= 16 * (dx * dx + dy * dy)
                /\ 16 * (dx * dx + dy * dy) < (2 * h + 1) * (2 * h + 1)

RECURSIVE LineHalves(_)
LineHalves(cs) ==
    IF Len(cs) < 2 THEN 0
    ELSE SegmentHalves(cs[1], cs[2]) + LineHalves(Tail(cs))

\* ST_LENGTH(ST_GEOMFROMTEXT(wkt, 3857)) of the line through cs.
StLength(cs) == Half(LineHalves(cs))

ElevValues == {None, Some(-2), Some(0), Some(5)}

\* Partial coverage: a tile covers a window of at most MaxRows points at the
\* start, in the middle or at the end of the line.
Windows ==
    {lo..(lo + n - 1) : lo \in {1, 50, NumSamples - MaxRows + 1}, n \in 0..MaxRows}

FullRaster ==
    [covered |-> 1..NumSamples,
     cell |-> [k \in 1..NumSamples |->
                  IF k % 10 = 0 THEN None ELSE Some((k % 7) - 3)]]

Rasters ==
    {FullRaster} \cup
    UNION {[covered : {c}, cell : [c -> ElevValues]] : c \in Windows}

StartRaster ==
    [covered |-> {1, 2}, cell |-> [k \in {1, 2} |-> IF k = 1 THEN Some(5) ELSE None]]

EndRaster == [covered |-> {NumSamples}, cell |-> [k \in {NumSamples} |-> Some(-2)]]

NoRaster == [covered |-> {}, cell |-> <<>>]

Rivers ==
    <<[name |-> "Le Cher", classe |-> 2, at |-> 70],
      [name |-> "Le Ru", classe |-> 5, at |-> 10],
      [name |-> "La Loire", classe |-> 1, at |-> 30]>>

ClcCodes == {112, 311, 512}

\* Intersection lengths are whole units: twice as many halves.
PartsSet ==
    UNION {[1..n -> [code : ClcCodes, len : {0, 4, 6}]] : n \in 0..MaxPolys}

\* What the database holds for the line through cs, given the raster, the
\* rivers and the land cover around it.
AnswerOf(cs, ras, rivers, ps) ==
    [length |-> StLength(cs),
     covered |-> ras.covered,
     cell |-> ras.cell,
     rivers |-> rivers,
     parts |-> ps]

\* One polygon that contains the whole line.
OnePolygon(cs) == <<[code |-> 311, len |-> LineHalves(cs)]>>

\* Nothing meets a line of zero length here; any other line starts on the
\* raster, crosses the rivers and lies in one polygon.
DefaultAnswer(cs) ==
    IF LineHalves(cs) = 0 THEN AnswerOf(cs, NoRaster, <<>>, <<>>)
    ELSE AnswerOf(cs, StartRaster, Rivers, OnePolygon(cs))

OtherAnswer(cs) == AnswerOf(cs, EndRaster, <<>>, <<>>)

ConcCoords == {SampleLine, AxisLine(10), << <<0, 0>> >>}

\* The WKT texts of the drawn bodies that parse as a line.
LineTexts(cs) == {BuildWkt(cs[r]) : r \in {q \in DOMAIN cs : Len(cs[q]) >= 2}}

\* The database content for one line.
OneLine(cs, a) == [w \in LineTexts(<<cs>>) |-> a]

InitLocals(present) ==
    /\ DB_CONFIG = EnvConfig
    /\ ALLOWED_ORIGINS = Origins
    /\ pc = [r \in Requests |-> IF r \in present THEN "json" ELSE "absent"]
    /\ wkt = [r \in Requests |-> ""]
    /\ total_length = [r \in Requests |-> Rat(0, 1)]
    /\ elevation_points = [r \in Requests |-> <<>>]
    /\ geospatial_data = [r \in Requests |-> <<>>]
    /\ hydro_info = [r \in Requests |-> <<>>]
    /\ clc_info = [r \in Requests |-> <<>>]
    /\ response = [r \in Requests |-> <<>>]
    /\ error = [r \in Requests |-> <<>>]
    /\ conns = [r \in Requests |-> <<>>]
    /\ issued = [r \in Requests |-> <<>>]
    /\ raised = [r \in Requests |-> <<>>]

\* One request, any body.
InitInput ==
    /\ InitLocals({1})
    /\ \E c \in CoordsSet :
          /\ coords = [r \in Requests |-> IF r = 1 THEN c ELSE <<>>]
          /\ db = [lines |-> OneLine(c, DefaultAnswer(c)), missing |-> "none"]

\* One request for a line; the table of one query function is missing.
InitSchema ==
    /\ InitLocals({1})
    /\ coords = [r \in Requests |-> IF r = 1 THEN SampleLine ELSE <<>>]
    /\ \E m \in FnSet :
          db = [lines |-> OneLine(SampleLine, DefaultAnswer(SampleLine)),
                missing |-> m]

\* One request for a line of any length, under any raster coverage (the
\* points of a line of zero length coincide: all or none are covered).
InitProfile ==
    /\ InitLocals({1})
    /\ \E c \in {AxisLine(n) : n \in (0..MaxLength) \cup {LongLength}}
                  \cup {SampleLine} :
          /\ coords = [r \in Requests |-> IF r = 1 THEN c ELSE <<>>]
          /\ \E ras \in IF LineHalves(c) = 0 THEN {NoRaster, FullRaster}
                                              ELSE Rasters :
                db = [lines |-> OneLine(c, AnswerOf(c, ras, Rivers, <<>>)),
                      missing |-> "none"]

\* One request for a line; any land cover, on a line that is entirely
\* covered or longer than what is covered.
InitLandCover ==
    /\ InitLocals({1})
    /\ \E ps \in PartsSet :
       \E n \in {SumLen(ps) \div 2, SumLen(ps) \div 2 + 1} :
          /\ coords = [r \in Requests |-> IF r = 1 THEN AxisLine(n) ELSE <<>>]
          /\ db = [lines |-> OneLine(AxisLine(n),
                                AnswerOf(AxisLine(n),
                                         IF n = 0 THEN FullRaster ELSE StartRaster,
                                         <<>>, ps)),
                   missing |-> "none"]

\* Every request present, each with its own body; the database holds
\* different content around the two lines.
InitConcurrent ==
    /\ InitLocals(Requests)
    /\ coords \in [Requests -> ConcCoords]
    /\ db = [lines |-> [w \in LineTexts(coords) |->
                          IF w = BuildWkt(SampleLine)
                          THEN DefaultAnswer(SampleLine)
                          ELSE OtherAnswer(AxisLine(10))],
             missing |-> "none"]

Init == InitInput \/ InitSchema \/ InitProfile \/ InitLandCover \/ InitConcurrent

Next ==
    \E r \in Requests :
        \/ ReceiveJson(r)
        \/ Connect(r)
        \/ ConnectFails(r)
        \/ CalculateLinestringLength(r)
        \/ FetchElevationData(r)
        \/ ComputeDistances(r)
        \/ FetchHydrographicInfo(r)
        \/ FetchClcData(r)
        \/ CalculateClcPercentage(r)
        \/ DiscardException(r)

Spec == Init /\ [][Next]_vars

----------------------------------------------------------------------------
(* Vocabulary of the properties.                                           *)

Finished(r) == pc[r] \in {"done", "failed", "faulted"}

Failed(r) == pc[r] \in {"failed", "faulted"}

\* Query function fn of request r executed its statement and returned.
Returned(r, fn) ==
    /\ \E i \in DOMAIN issued[r] : issued[r][i].fn = fn
    /\ \A i \in DOMAIN raised[r] : raised[r][i].raisedIn # fn

\* What the database holds for the line of request r.
Held(r) == db.lines[BuildWkt(coords[r])]

\* The rows the elevation query of request r returned.
ElevationRows(r) == ElevationStatement(Held(r))

\* Request r is past the statements of main.py:193-201.
PastDistances(r) == Returned(r, "fetch_elevation_data") /\ pc[r] # "divide"

Floor(n, d) == n \div d

Abs(n) == IF n < 0 THEN -n ELSE n

RECURSIVE SumPct(_)
SumPct(rows) == IF rows = <<>> THEN 0 ELSE rows[1][3] + SumPct(Tail(rows))

ZeroDivision == [exc |-> "ZeroDivisionError", raisedIn |-> "process_linestring"]

----------------------------------------------------------------------------
\* C1: when the elevation query returns zero rows the request never yields a
\* success payload, whatever the length; once the division of main.py:193
\* has run, the request has failed with ZeroDivisionError.
C1_EmptyElevationFails ==
    \A r \in Requests :
        (Returned(r, "fetch_elevation_data") /\ ElevationRows(r) = <<>>) =>
            /\ response[r] = <<>>
            /\ pc[r] \in {"divide", "failed", "faulted"}
            /\ geospatial_data[r] = <<>>
            /\ pc[r] # "divide" => error[r] = <<ZeroDivision>>

C1_Witness ==
    \E r \in Requests :
        /\ Returned(r, "fetch_elevation_data")
        /\ ElevationRows(r) = <<>>
        /\ total_length[r].num > 0
        /\ pc[r] = "failed"
        /\ error[r] = <<ZeroDivision>>

C3_NullBecomesZero ==
    \A r \in Requests :
        LET rows == ElevationRows(r)
        IN  (PastDistances(r) /\ rows # <<>>) =>
                /\ Len(geospatial_data[r]) = Len(rows)
                /\ \A i \in 1..Len(rows) :
                      /\ geospatial_data[r][i].elevation
                            = (IF rows[i][1] = None THEN 0 ELSE rows[i][1][1])
                      /\ geospatial_data[r][i].geometry = rows[i][2][2]
                /\ pc[r] = "done" => response[r][1].values = geospatial_data[r]

C3_Witness ==
    \E r \in Requests :
        /\ pc[r] = "done"
        /\ Len(ElevationRows(r)) = 3
        /\ ElevationRows(r)[1][1] = None
        /\ ElevationRows(r)[2][1] = Some(-2)
        /\ ElevationRows(r)[3][1] = Some(0)
        /\ response[r][1].values[1].elevation = 0
        /\ response[r][1].values[2].elevation = -2

\* The text C4 describes: pairs "<first> <second>" in input order,
\* separated by ", ", between "LINESTRING(" and ")".
RECURSIVE PairList(_)
PairList(cs) ==
    IF cs = <<>> THEN ""
    ELSE LET n == Len(cs)
             pair == Str(cs[n][1]) \o " " \o Str(cs[n][2])
         IN  IF n = 1 THEN pair
             ELSE PairList(SubSeq(cs, 1, n - 1)) \o ", " \o pair

\* C4: the WKT text is "LINESTRING(" + the pairs + ")", it is exactly
\* "LINESTRING(0 0, 1 1)" for [[0,0],[1,1]], and every query the request
\* issues receives that same text.
C4_WktText ==
    \A r \in Requests :
        pc[r] \notin {"absent", "json"} =>
            /\ wkt[r] = "LINESTRING(" \o PairList(coords[r]) \o ")"
            /\ coords[r] = << <<0, 0>>, <<1, 1>> >> => wkt[r] = "LINESTRING(0 0, 1 1)"
            /\ \A i \in DOMAIN issued[r] : issued[r][i].wkt = wkt[r]

C4_Witness ==
    \E r \in Requests :
        /\ pc[r] = "done"
        /\ coords[r] = << <<0, 0>>, <<1, 1>> >>
        /\ Len(issued[r]) = 5
        /\ \A i \in 1..5 : issued[r][i].wkt = "LINESTRING(0 0, 1 1)"

\* C5: a connection is open only while the query function that opened it
\* runs: at most one per request at any moment, and none once the handler
\* has returned or failed.
C5_ConnectionsClosed ==
    \A r \in Requests :
        /\ Cardinality(OpenConns(r)) <= 1
        /\ \A i \in OpenConns(r) : conns[r][i].heldBy = "frame"
        /\ Finished(r) => OpenConns(r) = {}

\* C6 as stated: a successful request opens exactly four connections.
C6_FourConnections ==
    \A r \in Requests : pc[r] = "done" => Len(conns[r]) = 4

\* C6 amended: a successful request opens exactly five connections, one per
\* query function call, and each connection serves exactly one call.
C6_FiveConnections ==
    \A r \in Requests :
        pc[r] = "done" =>
            /\ Len(conns[r]) = 5
            /\ Len(issued[r]) = 5
            /\ \A i \in 1..5 :
                  /\ issued[r][i].conn = i
                  /\ issued[r][i].fn = QueryFns[i]
                  /\ conns[r][i].fn = QueryFns[i]

C6_Witness ==
    \E r \in Requests :
        /\ pc[r] = "done"
        /\ Len(conns[r]) = 5
        /\ Len(issued[r]) = 5

\* C7: once a query function call has raised a database error, the request
\* has failed with that very error, has no response, and has neither
\* connected for nor executed any query placed after the failing call.
C7_DbErrorPropagates ==
    \A r \in Requests :
        raised[r] # <<>> =>
            /\ Len(raised[r]) = 1
            /\ raised[r][1].exc \in DbErrors
            /\ Failed(r)
            /\ error[r] = raised[r]
            /\ response[r] = <<>>
            /\ \A i \in DOMAIN issued[r] :
                  FnIndex(issued[r][i].fn) <= FnIndex(raised[r][1].raisedIn)
            /\ \A i \in DOMAIN conns[r] :
                  FnIndex(conns[r][i].fn) <= FnIndex(raised[r][1].raisedIn)

C7_Witness ==
    \E r \in Requests :
        /\ raised[r] = <<[exc |-> "ProgrammingError",
                          raisedIn |-> "fetch_hydrographic_info"]>>
        /\ Len(issued[r]) = 3
        /\ geospatial_data[r] # <<>>
        /\ pc[r] = "faulted"

\* What a request with body cs produces when it runs alone: the payload, or
\* the exception its statements raise; a refused connection aside.
AloneWkt(cs) == "LINESTRING(" \o PairList(cs) \o ")"

AloneFailure(cs) ==
    LET w == AloneWkt(cs)
        Err(i) == ExecuteError(QueryFns[i], w)
    IN  IF Err(1) # "" THEN <<[exc |-> Err(1), raisedIn |-> QueryFns[1]]>>
        ELSE IF Err(2) # "" THEN <<[exc |-> Err(2), raisedIn |-> QueryFns[2]]>>
        ELSE IF ElevationStatement(db.lines[w]) = <<>> THEN <<ZeroDivision>>
        ELSE IF Err(3) # "" THEN <<[exc |-> Err(3), raisedIn |-> QueryFns[3]]>>
        ELSE IF Err(4) # "" THEN <<[exc |-> Err(4), raisedIn |-> QueryFns[4]]>>
        ELSE IF Err(5) # "" THEN <<[exc |-> Err(5), raisedIn |-> QueryFns[5]]>>
        ELSE <<>>

AloneResponse(cs) ==
    LET a == db.lines[AloneWkt(cs)]
        rows == ElevationStatement(a)
        N == Len(rows)
    IN  [values |->
            [i \in 1..N |->
                [distance |-> Floor(a.length.num * (i - 1), a.length.den * N),
                 elevation |-> IF rows[i][1] = None THEN 0 ELSE rows[i][1][1],
                 geometry |-> rows[i][2][2]]],
         hydro_info |-> HydroStatement(a),
         clc_info |-> ClcStatement(a),
         clc_pct_info |-> ClcPercentageStatement(a)]

Refused(e) == e # <<>> /\ e[1].exc = "OperationalError"

\* C8: whatever the interleaving, a finished request has the outcome it has
\* when run alone on its coords (a refused connection aside, which the
\* database service decides), and the module-level DB_CONFIG and
\* ALLOWED_ORIGINS keep the values of process start.
C8_Isolation ==
    /\ DB_CONFIG = EnvConfig
    /\ ALLOWED_ORIGINS = Origins
    /\ \A r \in Requests :
          /\ pc[r] = "done" =>
                /\ AloneFailure(coords[r]) = <<>>
                /\ response[r] = <<AloneResponse(coords[r])>>
          /\ (Failed(r) /\ ~Refused(error[r])) =>
                error[r] = AloneFailure(coords[r])

C8_Witness ==
    /\ \A r \in Requests : pc[r] = "done"
    /\ \E r, q \in Requests :
          /\ coords[r] # coords[q]
          /\ response[r] # response[q]
          /\ response[r] = <<AloneResponse(coords[r])>>
          /\ response[q] = <<AloneResponse(coords[q])>>

\* The line of request r lies entirely within the land-cover polygons, which
\* do not overlap: the intersection lengths add up to the line's length.
EntirelyCovered(r) ==
    /\ Held(r).length.num > 0
    /\ SumLen(Held(r).parts) * Held(r).length.den = 2 * Held(r).length.num

\* C9: "clc_pct_info" is in descending order of percentage, and for a line
\* entirely within non-overlapping polygons the percentages sum to 100
\* within less than one unit per returned entry.
C9_PercentagesDescending ==
    \A r \in Requests :
        pc[r] = "done" =>
            LET rows == response[r][1].clc_pct_info
            IN  /\ \A i \in 1..(Len(rows) - 1) : rows[i][3] >= rows[i + 1][3]
                /\ EntirelyCovered(r) =>
                      /\ rows # <<>>
                      /\ Abs(SumPct(rows) - 100) < Len(rows)

C9_Witness ==
    \E r \in Requests :
        /\ pc[r] = "done"
        /\ EntirelyCovered(r)
        /\ Len(response[r][1].clc_pct_info) = 3
        /\ SumPct(response[r][1].clc_pct_info) # 100
        /\ response[r][1].clc_pct_info[1][3] > response[r][1].clc_pct_info[3][3]

\* C10: the distance reported for each sample equals the truncated distance
\* of that sample's point from the start of the line; the point returned in
\* "geometry" lies at fraction geometry/100 of the line.
C10_DistanceIsActual ==
    \A r \in Requests :
        pc[r] = "done" =>
            \A i \in DOMAIN response[r][1].values :
                response[r][1].values[i].distance
                    = Floor(total_length[r].num * response[r][1].values[i].geometry,
                            total_length[r].den * NumSamples)

====
